---- MODULE Spec2Model ----
(***************************************************************************)
(* Behaviour models of data_generation/behavior.py: construction of a      *)
(* NormalBehaviorModel / LogNormalBehaviorModel from a configuration       *)
(* table, the covariance check and correction, the two generate_customer   *)
(* variants, and the event-type registration of BehaviorModel.             *)
(*                                                                         *)
(* Numbers are fixed-point integers in thousandths ("milli"): 0.333 is     *)
(* 333, a mean of 4 is 4000.  A value that numpy would hold as NaN is the  *)
(* empty tuple <<>>, a number v is the one-element tuple <<v>>.            *)
(***************************************************************************)
EXTENDS Integers, Sequences, FiniteSets, TLC

VARIABLES
    conf,          \* the configuration table read by pd.read_csv (the file on disk)
    kind,          \* the class constructed: "Normal" or "LogNormal"
    exp_base,      \* self.exp_base (0 for the Normal class, which has none)
    pc,            \* position inside __init__, then "ready" or "failed"
    error,         \* the exception __init__ raised, "none" otherwise
    random_seed,   \* the random_seed argument: <<>> is None, <<s>> is the integer s
    behave_names,  \* self.behave_names
    behave_means,  \* self.behave_means
    behave_maxs,   \* self.behave_maxs: <<>> is None (no max column)
    behave_cov,    \* self.behave_cov
    covWrites,     \* how often self.behave_cov was re-assigned after loading
    seeded,        \* np.random.seed was called
    prompted,      \* input() was called
    backup,        \* the configuration file was copied to CHURN_OUT_DIR
    rng,           \* state of the shared generator np.random
    rates,         \* monthly_rate column of the last Customer generated
    rng2,          \* np.random of a second process running the same program
    rates2,        \* monthly_rate column of the last Customer of the second process
    event_type,    \* the rows of {schema}.event_type, in insertion order
    event_type0,   \* the rows before the first registration
    regPc,         \* position inside insert_event_types
    regIdx,        \* idx of the enumerate loop
    regLog,        \* the db.run INSERTs executed: <<run number, idx, name>>
    regRun,        \* number of the current call of insert_event_types
    regFailed,     \* number of calls that ended in a store exception
    regSnap        \* the rows when the first call returned

modelVars == <<conf, kind, exp_base, pc, error, random_seed, behave_names,
               behave_means, behave_maxs, behave_cov, covWrites, seeded,
               prompted, backup, rng, rates>>
seedVars == <<rng2, rates2>>
regVars == <<event_type, event_type0, regPc, regIdx, regLog, regRun,
             regFailed, regSnap>>
vars == <<modelVars, seedVars, regVars>>

----------------------------------------------------------------------------
(* Bounds of the model *)

\* covariance entries range over -MaxCov..MaxCov
MaxCov == 1
\* means are 4^k for k in 0..MaxLogMean
MaxLogMean == 1
\* the generator yields NoiseLevels different standard deviates per component
NoiseLevels == 3
\* seeds range over 0..MaxSeed
MaxSeed == 2
\* a model has 1..MaxBehaviors behaviors when it registers its event types
MaxBehaviors == 2
\* insert_event_types is called at most MaxRuns times
MaxRuns == 3

----------------------------------------------------------------------------
(* Arithmetic helpers *)

Abs(x) == IF x < 0 THEN 0 - x ELSE x

Max2(x, y) == IF x >= y THEN x ELSE y

Min2(x, y) == IF x <= y THEN x ELSE y

RECURSIVE Pow(_, _)
Pow(b, n) == IF n = 0 THEN 1 ELSE b * Pow(b, n - 1)

\* Series.min() over the means
SeqMin(s) == CHOOSE m \in {s[i] : i \in DOMAIN s} : \A i \in DOMAIN s : m <= s[i]

----------------------------------------------------------------------------
(* Matrices: a matrix is a tuple of rows *)

Transpose(M) == [i \in DOMAIN M |-> [j \in DOMAIN M |-> M[j][i]]]

Dot(A, B) ==
    [i \in DOMAIN A |-> [j \in DOMAIN A |->
        A[i][1] * B[1][j] + A[i][2] * B[2][j]]]

Trace(M) == M[1][1] + M[2][2]

Det(M) == M[1][1] * M[2][2] - M[1][2] * M[2][1]

\* np.allclose(A, B) with the default tolerances the function also names:
\* |a - b| <= atol + rtol * |b|, atol = 1e-08, rtol = 1e-05, scaled by 1e8
AllClose(A, B) ==
    \A i \in DOMAIN A : \A j \in DOMAIN A :
        100000000 * Abs(A[i][j] - B[i][j]) <= 1 + 1000 * Abs(B[i][j])

\* np.all(np.linalg.eigvals(M) > 0) for a 2x2 matrix: the eigenvalues are the
\* roots of x^2 - Trace*x + Det.  Two real roots are both positive iff their
\* sum and their product are; a complex pair (Trace^2 < 4*Det, so Det > 0)
\* has real part Trace/2 and compares > 0 iff Trace > 0.
EigvalsPositive(M) == Trace(M) > 0 /\ Det(M) > 0

is_pos_def(M) == EigvalsPositive(M) /\ AllClose(M, Transpose(M))

CorrectSquare(M) == Dot(M, M)

\* np.dot(self.behave_cov, self.behave_cov.T)
Correct(M) == Dot(M, Transpose(M))

----------------------------------------------------------------------------
(* The shared generator np.random.  Its state decides the next vector of     *)
(* deviates; which covariance shapes them is left open, so every vector of   *)
(* deviates is one some generator state gives.                               *)

RngSize == NoiseLevels * NoiseLevels

RngStates == 0 .. (RngSize - 1)

Advance(g) == (g + 1) % RngSize

\* the state np.random.seed(s) puts the generator in
SeedState(s) == s % RngSize

Deviates(g) ==
    << (g % NoiseLevels) - (NoiseLevels \div 2),
       (g \div NoiseLevels) - (NoiseLevels \div 2) >>

\* np.random.multivariate_normal(mean=mean, cov=...): mean plus deviates,
\* the deviates counted in steps of `unit`
MultivariateNormal(mean, unit, g) ==
    [i \in DOMAIN mean |-> mean[i] + unit * Deviates(g)[i]]

NoSeed == <<>>

Seeds == {NoSeed} \cup {<<s>> : s \in 0 .. MaxSeed}

\* Python truth value of random_seed
Truthy(s) == s # NoSeed /\ s[1] # 0

SeedAlways(s, g) == IF s # NoSeed THEN SeedState(s[1]) ELSE g

\* if random_seed: np.random.seed(random_seed)
SeedRng(s, g) == IF Truthy(s) THEN SeedState(s[1]) ELSE g

----------------------------------------------------------------------------
(* generate_customer *)

NaN == <<>>

NormalRatesMaxFloor(means, g) ==
    LET draw == MultivariateNormal(means, 2000, g)
        top == CHOOSE m \in {means[i] : i \in DOMAIN means} :
                   \A i \in DOMAIN means : m >= means[i]
    IN  [i \in DOMAIN means |-> <<Max2(draw[i], top \div 100)>>]

\* NormalBehaviorModel.generate_customer: the monthly_rate column
NormalRates(means, g) ==
    LET draw == MultivariateNormal(means, 2000, g)
        floor == SeqMin(means) \div 100
    IN  [i \in DOMAIN means |-> <<Max2(draw[i], floor)>>]

RECURSIVE ILog(_, _)
ILog(b, x) == IF x < b THEN 0 ELSE 1 + ILog(b, x \div b)

\* self.log_fun: log of x (milli) to the base exp_base, exact for the powers
\* of the base the configurations use
log_fun(b, x) == ILog(b, x \div 1000)

\* self.exp_fun: exp_base ^ x in milli (truncated below one thousandth)
exp_fun(b, x) == IF x >= 0 THEN 1000 * Pow(b, x) ELSE 1000 \div Pow(b, 0 - x)

\* np.maximum(rates - 0.667, 0.333)
ShiftFloor(r) == Max2(r - 667, 333)

ClipMaxFirst(r, m) == IF m = NaN THEN NaN ELSE <<Max2(Min2(r - 667, m[1]), 333)>>

\* rates.clip(max=self.behave_maxs) on one component: np.minimum, which
\* returns NaN when the maximum is NaN (an empty cell of the max column)
ClipMax(r, m) == IF m = NaN THEN NaN ELSE <<Min2(r, m[1])>>

LogNormalRatesClipFirst(means, maxs, b, g) ==
    LET draw == MultivariateNormal([i \in DOMAIN means |-> log_fun(b, means[i])], 1, g)
        raw == [i \in DOMAIN means |-> exp_fun(b, draw[i])]
    IN  [i \in DOMAIN means |->
            IF maxs # <<>> THEN ClipMaxFirst(raw[i], maxs[i])
            ELSE <<ShiftFloor(raw[i])>>]

\* LogNormalBehaviorModel.generate_customer: the monthly_rate column
LogNormalRates(means, maxs, b, g) ==
    LET draw == MultivariateNormal([i \in DOMAIN means |-> log_fun(b, means[i])], 1, g)
        raw == [i \in DOMAIN means |-> exp_fun(b, draw[i])]
        floored == [i \in DOMAIN means |-> ShiftFloor(raw[i])]
    IN  [i \in DOMAIN means |->
            IF maxs # <<>> THEN ClipMax(floored[i], maxs[i]) ELSE <<floored[i]>>]

GenerateRates(g) ==
    IF kind = "Normal" THEN NormalRates(behave_means, g)
    ELSE LogNormalRates(behave_means, behave_maxs, exp_base, g)

----------------------------------------------------------------------------
(* Configurations *)

Names2 == <<"a", "b">>

Range(s) == {s[i] : i \in DOMAIN s}

CovEntries == (0 - MaxCov) .. MaxCov

Matrices == {<<<<a, b>>, <<c, d>>>> : a \in CovEntries, b \in CovEntries,
                                      c \in CovEntries, d \in CovEntries}

Identity == <<<<1, 0>>, <<0, 1>>>>

MeanChoices == {1000 * Pow(4, k) : k \in 0 .. MaxLogMean}

\* a cell of the max column: empty, below the 0.333 floor, above it
MaxCells == {NaN, <<200>>, <<2000>>}

\* the max column: absent, or one cell per behavior
MaxColumns == {<<>>} \cup {<<x, y>> : x \in MaxCells, y \in MaxCells}

\* every covariance block, under one mean vector and no max column
CovConfigs ==
    {[names |-> Names2, columns |-> {"mean", "a", "b"}, mean |-> <<1000, 4000>>,
      max |-> <<>>, cov |-> M] : M \in Matrices}

\* every mean vector and max column, under a valid covariance
RateConfigs ==
    {[names |-> Names2,
      columns |-> {"mean", "a", "b"} \cup (IF mx = <<>> THEN {} ELSE {"max"}),
      mean |-> <<m1, m2>>, max |-> mx, cov |-> Identity] :
        m1 \in MeanChoices, m2 \in MeanChoices, mx \in MaxColumns}

\* tables in which a behavior has no covariance column
BrokenConfigs ==
    {[names |-> Names2, columns |-> {"mean"} \cup cs, mean |-> <<1000, 4000>>,
      max |-> <<>>, cov |-> Identity] : cs \in {{}, {"a"}, {"b"}}}

Configs == CovConfigs \cup RateConfigs \cup BrokenConfigs

Kinds == {<<"Normal", 0>>, <<"LogNormal", 2>>, <<"LogNormal", 4>>}

Answers == {"y", "Y", "n", ""}

----------------------------------------------------------------------------
(* NormalBehaviorModel.__init__, statement by statement.  A second process *)
(* runs the same program on the same table with the same arguments; it     *)
(* differs at most in the state its generator starts in.                   *)

ConfigErrors == {"KeyError", "ValueError"}

\* the labels model[self.behave_names] cannot find among the columns
MissingLabels(t) == {b \in Range(t.names) : b \notin t.columns}

InitModel(cs) ==
    /\ conf \in cs
    /\ \E k \in Kinds : kind = k[1] /\ exp_base = k[2]
    /\ pc = "new"
    /\ error = "none"
    /\ random_seed = NoSeed
    /\ behave_names = <<>>
    /\ behave_means = <<>>
    /\ behave_maxs = <<>>
    /\ behave_cov = <<>>
    /\ covWrites = 0
    /\ seeded = FALSE
    /\ prompted = FALSE
    /\ backup = FALSE
    /\ rng \in RngStates
    /\ rates = <<>>
    /\ rates2 = <<>>

LoadSeedFirst ==
    /\ pc = "new"
    /\ \E s \in Seeds :
        /\ random_seed' = s
        /\ rng' = SeedAlways(s, rng)
        /\ rng2' = SeedAlways(s, rng2)
        /\ seeded' = (s # NoSeed)
    /\ behave_means' = conf.mean
    /\ behave_maxs' = conf.max
    /\ behave_names' = conf.names
    /\ IF MissingLabels(conf) # {}
       THEN /\ pc' = "failed"
            /\ error' = "KeyError"
            /\ UNCHANGED behave_cov
       ELSE /\ pc' = "loaded"
            /\ behave_cov' = conf.cov
            /\ UNCHANGED error
    /\ UNCHANGED <<conf, kind, exp_base, covWrites, prompted, backup, rates, rates2>>
    /\ UNCHANGED regVars

\* lines 79-84: read the table, take the means, the maxima, the names and
\* the covariance block; model[self.behave_names] raises KeyError when a
\* behavior has no column
Load ==
    /\ pc = "new"
    /\ behave_means' = conf.mean
    /\ behave_maxs' = conf.max
    /\ behave_names' = conf.names
    /\ IF MissingLabels(conf) # {}
       THEN /\ pc' = "failed"
            /\ error' = "KeyError"
            /\ UNCHANGED behave_cov
       ELSE /\ pc' = "loaded"
            /\ behave_cov' = conf.cov
            /\ UNCHANGED error
    /\ UNCHANGED <<conf, kind, exp_base, random_seed, covWrites, seeded, prompted,
                   backup, rng, rates>>
    /\ UNCHANGED <<seedVars, regVars>>

\* lines 87-88
CheckColumns ==
    /\ pc = "loaded"
    /\ IF ~ (\A i \in DOMAIN behave_names : behave_names[i] \in conf.columns)
       THEN pc' = "failed" /\ error' = "ValueError"
       ELSE pc' = "checked" /\ UNCHANGED error
    /\ UNCHANGED <<conf, kind, exp_base, random_seed, behave_names, behave_means,
                   behave_maxs, behave_cov, covWrites, seeded, prompted, backup,
                   rng, rates>>
    /\ UNCHANGED <<seedVars, regVars>>

\* lines 89-90
Seed ==
    /\ pc = "checked"
    /\ \E s \in Seeds :
        /\ random_seed' = s
        /\ rng' = SeedRng(s, rng)
        /\ rng2' = SeedRng(s, rng2)
        /\ seeded' = Truthy(s)
    /\ pc' = "seeded"
    /\ UNCHANGED <<conf, kind, exp_base, error, behave_names, behave_means,
                   behave_maxs, behave_cov, covWrites, prompted, backup, rates>>
    /\ UNCHANGED <<rates2, regVars>>

\* lines 93-94
Validate ==
    /\ pc = "seeded"
    /\ IF ~ is_pos_def(behave_cov)
       THEN /\ prompted' = TRUE
            /\ \E answer \in Answers :
                IF answer \in {"y", "Y"}
                THEN /\ behave_cov' = Correct(behave_cov)
                     /\ covWrites' = covWrites + 1
                ELSE UNCHANGED <<behave_cov, covWrites>>
       ELSE UNCHANGED <<prompted, behave_cov, covWrites>>
    /\ pc' = "validated"
    /\ UNCHANGED <<conf, kind, exp_base, error, random_seed, behave_names,
                   behave_means, behave_maxs, seeded, backup, rng, rates>>
    /\ UNCHANGED <<seedVars, regVars>>

\* lines 97-99: os.path.join raises TypeError when CHURN_OUT_DIR is not set
Backup ==
    /\ pc = "validated"
    /\ \E out_dir_set \in BOOLEAN :
        IF out_dir_set
        THEN pc' = "ready" /\ backup' = TRUE /\ UNCHANGED error
        ELSE pc' = "failed" /\ error' = "TypeError" /\ UNCHANGED backup
    /\ UNCHANGED <<conf, kind, exp_base, random_seed, behave_names, behave_means,
                   behave_maxs, behave_cov, covWrites, seeded, prompted, rng, rates>>
    /\ UNCHANGED <<seedVars, regVars>>

GenerateInPlace ==
    /\ pc = "ready"
    /\ rates' = GenerateRates(rng)
    /\ rng' = Advance(rng)
    /\ rates2' = GenerateRates(rng2)
    /\ rng2' = Advance(rng2)
    /\ behave_means' = IF kind = "LogNormal"
                       THEN [i \in DOMAIN behave_means |->
                                log_fun(exp_base, behave_means[i])]
                       ELSE behave_means
    /\ UNCHANGED <<conf, kind, exp_base, pc, error, random_seed, behave_names,
                   behave_maxs, behave_cov, covWrites, seeded, prompted, backup>>
    /\ UNCHANGED regVars

\* generate_customer of the constructed class, in both processes
Generate ==
    /\ pc = "ready"
    /\ rates' = GenerateRates(rng)
    /\ rng' = Advance(rng)
    /\ rates2' = GenerateRates(rng2)
    /\ rng2' = Advance(rng2)
    /\ UNCHANGED <<conf, kind, exp_base, pc, error, random_seed, behave_names,
                   behave_means, behave_maxs, behave_cov, covWrites, seeded,
                   prompted, backup>>
    /\ UNCHANGED regVars

RegIdle ==
    /\ event_type = <<>>
    /\ event_type0 = <<>>
    /\ regPc = "idle"
    /\ regIdx = 0
    /\ regLog = <<>>
    /\ regRun = 0
    /\ regFailed = 0
    /\ regSnap = <<>>

\* one process: the second one is the first one
Init == InitModel(Configs) /\ rng2 = rng /\ RegIdle

Next == Load \/ CheckColumns \/ Seed \/ Validate \/ Backup \/ Generate

Spec == Init /\ [][Next]_vars

\* two processes whose generators start in any two states
InitSeeded == InitModel(RateConfigs) /\ rng2 \in RngStates /\ RegIdle

SpecSeeded == InitSeeded /\ [][Next]_vars

----------------------------------------------------------------------------
(* BehaviorModel.insert_event_types against the event_type table.  A row   *)
(* is <<event_type_id, event_type_name>>.  Every db call may raise; the    *)
(* exception leaves insert_event_types, and the caller may call it again.  *)

NamePool == {"a", "b", "c"}

NameLists ==
    UNION {{s \in [1 .. n -> NamePool] : \A i, j \in 1 .. n : i # j => s[i] # s[j]} :
           n \in 1 .. MaxBehaviors}

Rows0 == (0 .. MaxBehaviors) \X (NamePool \cup {"x"})

\* tables of at most two rows whose ids and whose names are pairwise distinct
Stores0 ==
    {<<>>} \cup {<<r>> : r \in Rows0}
    \cup {p \in {<<r, q>> : r \in Rows0, q \in Rows0} :
             p[1][1] # p[2][1] /\ p[1][2] # p[2][2]}

None == <<>>

\* db.one(self._event_id_sql(schema_name, event)): the event_type_id of the
\* row named event, None when there is no such row
one(table, event) ==
    IF \E k \in DOMAIN table : table[k][2] = event
    THEN <<table[(CHOOSE k \in DOMAIN table : table[k][2] = event /\
                     \A l \in DOMAIN table : table[l][2] = event => k <= l)][1]>>
    ELSE None

Falsy(r) == r = None \/ r[1] = 0

\* ... is None
IsNone(r) == r = None

NewRowOneBased(idx, event) == <<idx + 1, event>>

\* VALUES ({idx},'{event}')
NewRow(idx, event) == <<idx, event>>

\* the loop moves on to the next behavior, or the call returns
Proceed(table) ==
    /\ regIdx' = regIdx + 1
    /\ regPc' = IF regIdx + 1 = Len(behave_names) THEN "done" ELSE "lookup"
    /\ regSnap' = IF regIdx + 1 = Len(behave_names) /\ regRun - regFailed = 1
                  THEN table ELSE regSnap

StartRun ==
    /\ regPc \in {"idle", "done", "failed"}
    /\ regRun < MaxRuns
    /\ regRun' = regRun + 1
    /\ regIdx' = 0
    /\ regPc' = "lookup"
    /\ UNCHANGED <<event_type, event_type0, regLog, regFailed, regSnap>>
    /\ UNCHANGED <<modelVars, seedVars>>

LookupSkipped ==
    /\ regPc = "lookup"
    /\ regPc' = "insert"
    /\ UNCHANGED <<regIdx, regSnap>>
    /\ UNCHANGED <<event_type, event_type0, regLog, regRun, regFailed>>
    /\ UNCHANGED <<modelVars, seedVars>>

\* line 47
Lookup ==
    /\ regPc = "lookup"
    /\ IF IsNone(one(event_type, behave_names[regIdx + 1]))
       THEN regPc' = "insert" /\ UNCHANGED <<regIdx, regSnap>>
       ELSE Proceed(event_type)
    /\ UNCHANGED <<event_type, event_type0, regLog, regRun, regFailed>>
    /\ UNCHANGED <<modelVars, seedVars>>

\* line 47, db.one raises
LookupFails ==
    /\ regPc = "lookup"
    /\ regPc' = "failed"
    /\ regFailed' = regFailed + 1
    /\ UNCHANGED <<event_type, event_type0, regIdx, regLog, regRun, regSnap>>
    /\ UNCHANGED <<modelVars, seedVars>>

\* line 48
Insert ==
    /\ regPc = "insert"
    /\ event_type' = Append(event_type, NewRow(regIdx, behave_names[regIdx + 1]))
    /\ regLog' = Append(regLog, <<regRun, regIdx, behave_names[regIdx + 1]>>)
    /\ Proceed(event_type')
    /\ UNCHANGED <<event_type0, regRun, regFailed>>
    /\ UNCHANGED <<modelVars, seedVars>>

\* line 48, db.run raises: the statement was not executed, or it was and the
\* connection broke before the answer came
InsertFails ==
    /\ regPc = "insert"
    /\ \E executed \in BOOLEAN :
        IF executed
        THEN /\ event_type' = Append(event_type, NewRow(regIdx, behave_names[regIdx + 1]))
             /\ regLog' = Append(regLog, <<regRun, regIdx, behave_names[regIdx + 1]>>)
        ELSE UNCHANGED <<event_type, regLog>>
    /\ regPc' = "failed"
    /\ regFailed' = regFailed + 1
    /\ UNCHANGED <<event_type0, regIdx, regRun, regSnap>>
    /\ UNCHANGED <<modelVars, seedVars>>

\* a BehaviorModel that has its behave_names, and a table in any state
InitRegistrar ==
    /\ behave_names \in NameLists
    /\ conf = [names |-> behave_names, columns |-> {}, mean |-> <<>>, max |-> <<>>,
               cov |-> <<>>]
    /\ kind = "Base"
    /\ exp_base = 0
    /\ pc = "ready"
    /\ error = "none"
    /\ random_seed = NoSeed
    /\ behave_means = <<>>
    /\ behave_maxs = <<>>
    /\ behave_cov = <<>>
    /\ covWrites = 0
    /\ seeded = FALSE
    /\ prompted = FALSE
    /\ backup = FALSE
    /\ rng = 0
    /\ rates = <<>>
    /\ rng2 = 0
    /\ rates2 = <<>>
    /\ event_type \in Stores0
    /\ event_type0 = event_type
    /\ regPc = "idle"
    /\ regIdx = 0
    /\ regLog = <<>>
    /\ regRun = 0
    /\ regFailed = 0
    /\ regSnap = <<>>

NextRegistrar == StartRun \/ Lookup \/ LookupFails \/ Insert \/ InsertFails

SpecRegistrar == InitRegistrar /\ [][NextRegistrar]_vars

----------------------------------------------------------------------------
(* Claims about the registration of event types (SpecRegistrar) *)

\* the table held none of the model's behaviors before the first call
NoneHeld == \A k \in DOMAIN event_type0 : event_type0[k][2] \notin Range(behave_names)

\* the INSERTs executed for one behavior
InsertsOf(event) == {k \in DOMAIN regLog : regLog[k][3] = event}

\* the rows of the first k behaviors, each under its position
PrefixRows(k) == [i \in 1 .. k |-> <<i - 1, behave_names[i]>>]

IdsDistinct(table) ==
    \A k, l \in DOMAIN table : k # l => table[k][1] # table[l][1]

\* C1: when the table holds none of the behaviors and no store call fails,
\* two calls in a row execute exactly one INSERT per behavior, all of them in
\* the first call; the second call executes none and leaves the table as the
\* first call left it.
C1_Idempotent ==
    (NoneHeld /\ regFailed = 0 /\ regRun >= 2) =>
        /\ \A k \in DOMAIN regLog : regLog[k][1] = 1
        /\ \A i \in DOMAIN behave_names :
               Cardinality(InsertsOf(behave_names[i])) = 1
        /\ event_type = regSnap
        /\ event_type = event_type0 \o PrefixRows(Len(behave_names))

C1_Witness ==
    /\ NoneHeld
    /\ regFailed = 0
    /\ regRun = 2
    /\ regPc = "done"
    /\ Len(behave_names) >= 2
    /\ Len(regLog) = Len(behave_names)

\* C8: when the table holds none of the behaviors, then whatever store calls
\* fail, the table holds its first rows plus the rows of a prefix of the
\* behaviors, each keyed by (position, name); no behavior is inserted twice
\* over all calls; and a call that returns leaves the rows of all behaviors.
C8_RetrySafe ==
    NoneHeld =>
        /\ \E k \in 0 .. Len(behave_names) :
               /\ event_type = event_type0 \o PrefixRows(k)
               /\ regPc = "done" => k = Len(behave_names)
        /\ \A i \in DOMAIN behave_names :
               Cardinality(InsertsOf(behave_names[i])) <= 1

C8_Witness ==
    /\ NoneHeld
    /\ regPc = "done"
    /\ regFailed = 2
    /\ Len(behave_names) >= 2
    /\ \E k, l \in DOMAIN regLog : regLog[k][1] # regLog[l][1]

\* C10 as claimed: whenever the ids of the table were pairwise distinct
\* before, they are pairwise distinct once insert_event_types has returned.
C10_IdsUnique_Claimed ==
    (IdsDistinct(event_type0) /\ regPc = "done") => IdsDistinct(event_type)

\* the positions of the behaviors the table did not hold before the first call
AbsentPositions ==
    {i - 1 : i \in {j \in DOMAIN behave_names : IsNone(one(event_type0, behave_names[j]))}}

\* C10 amended: when the ids were pairwise distinct and none of them is the
\* position of a behavior the table does not hold, the ids stay pairwise
\* distinct, during and after every call.
C10_IdsUnique ==
    (/\ IdsDistinct(event_type0)
     /\ \A k \in DOMAIN event_type0 : event_type0[k][1] \notin AbsentPositions)
    => IdsDistinct(event_type)

C10_Witness ==
    /\ regPc = "done"
    /\ IdsDistinct(event_type0)
    /\ \A k \in DOMAIN event_type0 : event_type0[k][1] \notin AbsentPositions
    /\ Len(event_type0) = 2
    /\ \E k \in DOMAIN event_type0 :
          /\ event_type0[k][2] \in Range(behave_names)
          /\ event_type0[k][1] \in 0 .. (Len(behave_names) - 1)
    /\ Len(event_type) > Len(event_type0)

----------------------------------------------------------------------------
(* Claims about construction and generation (Spec, SpecSeeded) *)

Constructed == pc = "ready"

\* the generator state the last generate_customer drew from
DrawnFrom == (rng + RngSize - 1) % RngSize

\* C2: no model is constructed that holds a covariance failing is_pos_def.
C2_NoInvalidModel == Constructed => is_pos_def(behave_cov)

\* the value exp_base ^ (log of the mean + deviate) stands for: the mean
\* times exp_base ^ deviate
RawRate(i) ==
    LET d == Deviates(DrawnFrom)[i]
    IN  IF d >= 0 THEN behave_means[i] * Pow(exp_base, d)
        ELSE behave_means[i] \div Pow(exp_base, 0 - d)

LogNormalGenerated == kind = "LogNormal" /\ rates # <<>>

\* C3 as claimed, for tables whose max column, when there is one, has every
\* cell filled: every LogNormal rate is >= 0.333, and <= the maximum of its
\* behavior when maxima are declared.
C3_RateBounds_Claimed ==
    (LogNormalGenerated /\ \A i \in DOMAIN behave_maxs : behave_maxs[i] # NaN) =>
        \A i \in DOMAIN rates :
            /\ rates[i] # NaN
            /\ rates[i][1] >= 333
            /\ behave_maxs # <<>> => rates[i][1] <= behave_maxs[i][1]

\* C3 amended: a LogNormal rate is <= the declared maximum m of its behavior
\* and >= min(0.333, m), so >= 0.333 when m >= 0.333 and equal to m when
\* m < 0.333; without a max column it is max(raw - 0.667, 0.333), >= 0.333
\* and not bounded above; under a max column with an empty cell it is NaN.
C3_RateBounds ==
    LogNormalGenerated =>
        \A i \in DOMAIN rates :
            IF behave_maxs = <<>>
            THEN /\ rates[i] # NaN
                 /\ rates[i][1] >= 333
                 /\ rates[i][1] >= RawRate(i) - 667
                 /\ rates[i][1] > 333 => rates[i][1] = RawRate(i) - 667
            ELSE IF behave_maxs[i] = NaN
            THEN rates[i] = NaN
            ELSE /\ rates[i] # NaN
                 /\ rates[i][1] <= behave_maxs[i][1]
                 /\ rates[i][1] >= Min2(333, behave_maxs[i][1])
                 /\ behave_maxs[i][1] < 333 => rates[i][1] = behave_maxs[i][1]

\* a rate held down to a maximum below the floor, next to one above 2.0
\* generated without maxima being the other case
C3_Witness ==
    /\ LogNormalGenerated
    /\ behave_maxs # <<>>
    /\ behave_maxs[1] = <<200>>
    /\ rates[1] = <<200>>
    /\ behave_maxs[2] = <<2000>>
    /\ rates[2] = <<2000>>

\* C4: every Normal rate is max(drawn value, 0.01 * min(means)), so it is
\* >= 0.01 * min(means), the minimum taken over all behaviors.
C4_NormalFloor ==
    (kind = "Normal" /\ rates # <<>>) =>
        \E j \in DOMAIN behave_means :
            /\ \A i \in DOMAIN behave_means : behave_means[j] <= behave_means[i]
            /\ \A i \in DOMAIN rates :
                LET drawn == behave_means[i] + 2000 * Deviates(DrawnFrom)[i]
                IN  /\ 100 * rates[i][1] >= behave_means[j]
                    /\ rates[i][1] >= drawn
                    /\ (rates[i][1] = drawn \/ 100 * rates[i][1] = behave_means[j])

\* a draw below the floor next to a draw above it, the means being different
C4_Witness ==
    /\ kind = "Normal"
    /\ rates # <<>>
    /\ behave_means[1] < behave_means[2]
    /\ 100 * rates[1][1] = behave_means[1]
    /\ rates[2][1] > behave_means[2]

\* C5: two processes that construct the model with the same seed, whatever
\* integer it is, hold generators in the same state and generate the same
\* rate vectors, whatever states their generators were in before.
C5_SeededDeterminism ==
    (random_seed # NoSeed /\ pc \in {"seeded", "validated", "ready"}) =>
        (rng = rng2 /\ rates = rates2)

\* C6 as claimed: a corrected covariance satisfies is_pos_def.
C6_CorrectedValid_Claimed == covWrites > 0 => is_pos_def(behave_cov)

\* C6 amended: a corrected covariance is M * transpose(M) for the loaded
\* block M; it is symmetric with no negative eigenvalue, and it satisfies
\* is_pos_def exactly when M is not singular.
C6_CorrectedValid ==
    covWrites > 0 =>
        LET M == conf.cov
            a == M[1][1]
            b == M[1][2]
            c == M[2][1]
            d == M[2][2]
        IN  /\ ~ is_pos_def(M)
            /\ behave_cov = << <<a * a + b * b, a * c + b * d>>,
                               <<a * c + b * d, c * c + d * d>> >>
            /\ behave_cov[1][2] = behave_cov[2][1]
            /\ Trace(behave_cov) >= 0 /\ Det(behave_cov) >= 0
            /\ is_pos_def(behave_cov) <=> (a * d # b * c)

\* an asymmetric block corrected into a valid covariance
C6_Witness ==
    /\ Constructed
    /\ covWrites = 1
    /\ conf.cov[1][2] # conf.cov[2][1]
    /\ is_pos_def(behave_cov)
    /\ behave_cov # conf.cov

\* C7: when a behavior of the table has no covariance column, construction
\* fails with a configuration error, and it fails before the generator is
\* seeded, before the prompt and before the backup copy.
C7_MissingColumnFails ==
    ((\E i \in DOMAIN conf.names : conf.names[i] \notin conf.columns) /\ pc # "new") =>
        /\ pc = "failed"
        /\ error \in ConfigErrors
        /\ ~ seeded /\ ~ prompted /\ ~ backup
        /\ covWrites = 0
        /\ rates = <<>>

C7_Witness ==
    /\ pc = "failed"
    /\ error = "KeyError"
    /\ "a" \in conf.columns
    /\ "b" \notin conf.columns

\* C9: the covariance is re-assigned at most once, by the correction step of
\* construction; once the model is constructed, generate_customer leaves the
\* table, the names, the means, the maxima and the covariance as they are.
C9_CovarianceFrozen ==
    /\ [](covWrites <= 1)
    /\ [][(pc # "new" /\ (behave_cov' # behave_cov \/ covWrites' # covWrites))
             => (pc = "seeded" /\ covWrites = 0)]_vars
    /\ [][Constructed =>
             UNCHANGED <<conf, kind, exp_base, behave_names, behave_means,
                         behave_maxs, behave_cov, covWrites>>]_vars

\* a LogNormal model with a corrected covariance has generated a customer
C9_Witness ==
    /\ Constructed
    /\ covWrites = 1
    /\ behave_cov # conf.cov
    /\ LogNormalGenerated
    /\ behave_means = <<1000, 4000>>

====
